---- MODULE Spec2Model ----
(***************************************************************************)
(* A model of mcp_sdk.shared.session: BaseSession (connection state,       *)
(* state lock, correlation table, in-flight table, receive / heartbeat /   *)
(* reconnection tasks) and RequestResponder, and of                         *)
(* mcp_sdk.shared.progress: ProgressContext and the progress() scope.       *)
(*                                                                         *)
(* Every coroutine is a task with a program counter.  A step of the model  *)
(* is the code a task runs between two suspension points of the asyncio    *)
(* event loop.  The state lock is asyncio.Lock: one holder, not reentrant. *)
(* The metrics lock is never held across a suspension point, so it is not  *)
(* modelled.  Exception classes are named as session.py writes them.       *)
(***************************************************************************)
EXTENDS Integers, FiniteSets, Sequences, TLC

(***************************************************************************)
(* Bounds of the model.                                                    *)
(***************************************************************************)
NumCallers == 2
MaxRequestId == 2
MaxInFlightCfg == 1
MaxAttemptsCfg == 2
MaxResponders == 1
MaxEntries == 1
NumInboundIds == 1
NumUsers == 2
MaxCalls == 3
MaxCurrent == 2
MaxTicks == 2
MinReportInterval == 2
HeartbeatInterval == 1
MaxDuplicates == 1

CallerNames == <<"c1", "c2", "c3", "c4">>
Callers == {CallerNames[i] : i \in 1..NumCallers}
RX == "rx"
HB == "hb"
RC == "rc"
HD == "hd"
Background == {RX, HB, RC}
UserNames == <<"p1", "p2", "p3">>
Users == {UserNames[i] : i \in 1..NumUsers}
FIN == "fin"
Reporters == Users \cup {FIN}
Tasks == Callers \cup Background \cup {HD} \cup Reporters
NoBeat == -1
NoTask == "none"

RequestIds == 1..MaxRequestId
InboundIds == 1..NumInboundIds
Handles == 1..(MaxResponders + MaxDuplicates)

ConnectionState ==
    {"DISCONNECTED", "CONNECTING", "CONNECTED", "RECONNECTING", "DISCONNECTING", "ERROR"}

VARIABLES
    state,              \* BaseSession._state
    state_lock,         \* holder of BaseSession._state_lock, or NoTask
    max_in_flight,      \* BaseSession._max_in_flight
    reconnect_attempts, \* BaseSession._reconnect_attempts
    heartbeat_on,       \* BaseSession._heartbeat_interval > 0
    request_id,         \* BaseSession._request_id
    response_streams,   \* keys of BaseSession._response_streams
    chan,               \* the memory object stream created for each request id
    in_flight,          \* BaseSession._in_flight: inbound id -> responder handle (0: no entry)
    resp,               \* the RequestResponder objects created so far
    nresp,              \* how many RequestResponder objects were created
    wire,               \* envelopes handed to the write stream
    pc,                 \* where each task is
    call,               \* each caller's current (or last) call of the public API
    attempts,           \* the local variable attempts of _reconnect_loop
    progress_ctx,       \* the ProgressContext of the progress() scope
    now,                \* time.time(), in ticks
    scope,              \* the "with progress(ctx)" block: "open", "left", "raised"
    pcall,              \* each reporting task's current (or last) call
    reports,            \* the progress notifications transmitted, in order
    last_activity,      \* BaseSession._last_activity, in ticks
    last_heartbeat      \* BaseSession._last_heartbeat, in ticks, or NoBeat

vars == <<state, state_lock, max_in_flight, reconnect_attempts, heartbeat_on, request_id,
          response_streams, chan, in_flight, resp, nresp, wire, pc, call, attempts,
          progress_ctx, now, scope, pcall, reports, last_activity, last_heartbeat>>

hvars == <<last_activity, last_heartbeat>>

pvars == <<progress_ctx, now, scope, pcall, reports>>

config == <<max_in_flight, reconnect_attempts, heartbeat_on>>
tables == <<response_streams, chan, in_flight, resp, nresp>>

NoCall == [op |-> "none", rid |-> 0, cause |-> "none", outcome |-> "none", got |-> 0]
FreshChan == [sendClosed |-> FALSE, recvClosed |-> FALSE, item |-> "none", src |-> 0]
FreshResponder ==
    [id |-> 0,                 \* request_id
     entered |-> FALSE,        \* _entered
     completed |-> FALSE,      \* _completed
     cancel_called |-> FALSE,  \* _cancel_scope.cancel_called
     expired |-> FALSE,        \* time.monotonic() - _start_time > _timeout
     hook |-> FALSE,           \* _handle_incoming_request is still running its hooks
     entries |-> 0,            \* how often __enter__ was called
     ncomplete |-> 0,          \* how often _on_complete was called
     sent |-> 0,               \* response and error envelopes written for the request
     term |-> "none",          \* what set _completed: "responded", "cancelled", "timedout"
     last |-> "none",          \* how the latest respond() call ended
     lastc |-> "none"]         \* what the latest cancel() call did: "done", "noop"

(* ProgressContext as the dataclass creates it *)
FreshContext == [current |-> 0, last_reported |-> 0]

NoPCall ==
    [op |-> "none",        \* "progress", "set_progress", "final"
     arg |-> 0,            \* amount or current, as passed
     t |-> 0,              \* current_time, as the call read it
     value |-> 0,          \* the value its notification carries
     n |-> 0,              \* how many calls the task has made
     outcome |-> "none"]

(* time.time() at the first call: far more than _min_report_interval after 0.0 *)
Epoch == MinReportInterval

(***************************************************************************)
(* BaseSession.__init__: the configuration is the constructor's input.     *)
(***************************************************************************)
InitFields ==
    /\ max_in_flight \in 1..MaxInFlightCfg
    /\ reconnect_attempts \in 0..MaxAttemptsCfg
    /\ heartbeat_on \in BOOLEAN
    /\ state_lock = NoTask
    /\ request_id = 0
    /\ response_streams = {}
    /\ chan = [i \in RequestIds |-> FreshChan]
    /\ in_flight = [i \in InboundIds |-> 0]
    /\ resp = [h \in Handles |-> FreshResponder]
    /\ nresp = 0
    /\ wire = {}
    /\ call = [c \in Callers |-> NoCall]
    /\ attempts = 0
    /\ progress_ctx = FreshContext
    /\ now = Epoch
    /\ scope = "open"
    /\ pcall = [u \in Reporters |-> NoPCall]
    /\ reports = <<>>

(* _last_heartbeat = None, _last_activity = datetime.utcnow() *)
InitClock ==
    /\ last_activity = now
    /\ last_heartbeat = NoBeat

Init ==
    /\ InitFields
    /\ InitClock
    /\ state = "DISCONNECTED"
    /\ pc = [t \in Tasks |-> IF t \in Callers \cup Users THEN "idle"
                             ELSE IF t = HD THEN "run" ELSE "off"]

(***************************************************************************)
(* The session as its methods find it: in any connection state, with the   *)
(* background tasks that state implies and both tables empty.              *)
(***************************************************************************)
Running(s) == s \in {"CONNECTED", "RECONNECTING", "ERROR", "DISCONNECTING"}

InitTasks ==
    /\ state \in ConnectionState
    /\ pc = [t \in Tasks |->
               IF t \in Callers \cup Users THEN "idle"
               ELSE IF t = HD THEN "run"
               ELSE IF t = FIN THEN "off"
               ELSE IF t = RX THEN (IF Running(state) THEN "rx_wait" ELSE "off")
               ELSE IF t = HB THEN (IF Running(state) /\ heartbeat_on THEN "hb_sleep" ELSE "off")
               ELSE IF state = "RECONNECTING" /\ reconnect_attempts > 0
                    THEN "rc_attempt" ELSE "off"]

InitLive ==
    /\ InitFields
    /\ InitClock
    /\ InitTasks
    /\ state # "RECONNECTING" => reconnect_attempts = MaxAttemptsCfg
    /\ state \notin {"DISCONNECTED", "CONNECTED"} => ~heartbeat_on

(***************************************************************************)
(* asyncio.Lock.acquire as _state_lock is used: a task passes only when    *)
(* the lock has no holder, whoever the holder is.                          *)
(***************************************************************************)
LockFreeReentrant(t) == state_lock \in {NoTask, t}

LockIgnored(t) == TRUE

LockFree(t) == state_lock = NoTask

(* _update_state: the value _state has after the call. *)
UpdateStateKeep(old, new) == old

UpdateStateTo(old, new) == IF old = new THEN old ELSE new

(* "finally" of send_request: _response_streams.pop(request_id, None). *)
PopEntryKeep(rs, id) == rs

PopEntry(rs, id) == rs \ {id}

(* "finally" of send_request: both ends of the response stream are closed. *)
CloseChan(ch, id) ==
    IF id \in RequestIds
    THEN [ch EXCEPT ![id] = [sendClosed |-> TRUE, recvClosed |-> TRUE, item |-> "none",
                             src |-> 0]]
    ELSE ch

(* stream.aclose() on every send stream of the correlation table. *)
CloseSendEnds(ch, ids) ==
    [i \in RequestIds |-> IF i \in ids THEN [ch[i] EXCEPT !.sendClosed = TRUE] ELSE ch[i]]

(* RequestResponder.cancel on every responder of the in-flight table. *)
Registered(h) == \E i \in InboundIds : in_flight[i] = h

(* RequestResponder.respond: self._timeout and elapsed > self._timeout *)
TimedOutNever(r) == FALSE

TimedOut(r) == r.expired

(* RequestResponder.cancel *)
CancelScopeOnly(r) ==
    IF r.completed
    THEN [r EXCEPT !.lastc = "noop"]
    ELSE [r EXCEPT !.cancel_called = TRUE, !.term = "cancelled", !.lastc = "done"]

CancelAgain(r) ==
    [r EXCEPT !.cancel_called = TRUE, !.completed = TRUE, !.term = "cancelled",
              !.ncomplete = @ + 1, !.lastc = "done"]

CancelOne(r) ==
    IF r.completed
    THEN [r EXCEPT !.lastc = "noop"]
    ELSE [r EXCEPT !.cancel_called = TRUE, !.completed = TRUE, !.term = "cancelled",
                   !.ncomplete = @ + 1, !.lastc = "done"]

(* on_complete of _handle_incoming_request: self._in_flight.pop(r.request_id, None) *)
OnComplete(inf, id) == [inf EXCEPT ![id] = 0]

CancelResponders(rs) ==
    [h \in Handles |-> IF Registered(h) THEN CancelOne(rs[h]) ELSE rs[h]]

(* the on_complete callbacks of those cancellations: _in_flight.pop(id). *)
PopCancelled(inf) ==
    [i \in InboundIds |-> IF inf[i] # 0 /\ ~resp[inf[i]].completed THEN 0 ELSE inf[i]]

NoInFlight == [i \in InboundIds |-> 0]

InFlightCount == Cardinality({i \in InboundIds : in_flight[i] # 0})

(* the loop tests "while self.state != DISCONNECTED" of the two loops *)
LoopPc(s, waiting) == IF s = "DISCONNECTED" THEN "off" ELSE waiting

(***************************************************************************)
(* How a call of the public API ends.                                      *)
(***************************************************************************)
Ended(c, out, cs) == [call[c] EXCEPT !.outcome = out, !.cause = cs]

CanCall(c) ==
    /\ c \in Callers
    /\ pc[c] = "idle"
    /\ \A i, j \in 1..NumCallers : (j < i /\ c = CallerNames[i]) => pc[CallerNames[j]] # "idle"

(***************************************************************************)
(* __aenter__ (start).                                                     *)
(***************************************************************************)
CallStart(c) ==
    /\ CanCall(c)
    /\ pc' = [pc EXCEPT ![c] = "start"]
    /\ call' = [call EXCEPT ![c] = [NoCall EXCEPT !.op = "start"]]
    /\ UNCHANGED <<state, state_lock, config, pvars, hvars, request_id, tables, wire, attempts>>

(* "async with self._state_lock", the state test, and the call of
   _update_state(CONNECTING), which waits for the lock again *)
StartEnter(c) ==
    /\ c \in Callers
    /\ pc[c] = "start"
    /\ LockFree(c)
    /\ IF state # "DISCONNECTED"
       THEN /\ pc' = [pc EXCEPT ![c] = "done"]
            /\ call' = [call EXCEPT ![c] = Ended(c, "RuntimeError", "already_active")]
            /\ UNCHANGED state_lock
       ELSE /\ pc' = [pc EXCEPT ![c] = "start_upd1"]
            /\ state_lock' = c
            /\ UNCHANGED call
    /\ UNCHANGED <<state, config, pvars, hvars, request_id, tables, wire, attempts>>

(***************************************************************************)
(* __aexit__ (stop).                                                       *)
(***************************************************************************)
CallStop(c) ==
    /\ CanCall(c)
    /\ pc' = [pc EXCEPT ![c] = "stop"]
    /\ call' = [call EXCEPT ![c] = [NoCall EXCEPT !.op = "stop"]]
    /\ UNCHANGED <<state, state_lock, config, pvars, hvars, request_id, tables, wire, attempts>>

StopEnter(c) ==
    /\ c \in Callers
    /\ pc[c] = "stop"
    /\ LockFree(c)
    /\ IF state = "DISCONNECTED"
       THEN /\ pc' = [pc EXCEPT ![c] = "done"]
            /\ call' = [call EXCEPT ![c] = Ended(c, "ok", "already_stopped")]
            /\ UNCHANGED state_lock
       ELSE /\ pc' = [pc EXCEPT ![c] = "stop_upd1"]
            /\ state_lock' = c
            /\ UNCHANGED call
    /\ UNCHANGED <<state, config, pvars, hvars, request_id, tables, wire, attempts>>

(***************************************************************************)
(* The test that opens send_request, send_notification and                 *)
(* send_progress_notification: self.state != ConnectionState.CONNECTED.    *)
(***************************************************************************)
NotConnectedLax == state \notin {"CONNECTED", "RECONNECTING"}

NotConnected == state # "CONNECTED"

(***************************************************************************)
(* send_request, up to "await self._write_stream.send(message)".           *)
(***************************************************************************)
CapacityReached == InFlightCount >= max_in_flight

(* _get_next_request_id: self._request_id += 1; return self._request_id *)
GetNextRequestIdAgain(r) == IF r = 0 THEN 1 ELSE r

GetNextRequestId(r) == r + 1

SendRequest(c) ==
    /\ CanCall(c)
    /\ IF NotConnected
       THEN /\ pc' = [pc EXCEPT ![c] = "done"]
            /\ call' = [call EXCEPT ![c] =
                          [NoCall EXCEPT !.op = "send_request",
                                         !.outcome = "MCPConnectionError",
                                         !.cause = "not_connected"]]
            /\ UNCHANGED <<request_id, response_streams, chan>>
       ELSE IF CapacityReached
       THEN /\ pc' = [pc EXCEPT ![c] = "done"]
            /\ call' = [call EXCEPT ![c] =
                          [NoCall EXCEPT !.op = "send_request",
                                         !.outcome = "MCPConnectionError",
                                         !.cause = "capacity"]]
            /\ UNCHANGED <<request_id, response_streams, chan>>
       ELSE /\ request_id < MaxRequestId
            /\ request_id' = GetNextRequestId(request_id)
            /\ response_streams' = response_streams \cup {request_id'}
            /\ chan' = [chan EXCEPT ![request_id'] = FreshChan]
            /\ pc' = [pc EXCEPT ![c] = "sending"]
            /\ call' = [call EXCEPT ![c] =
                          [NoCall EXCEPT !.op = "send_request", !.rid = request_id']]
    /\ UNCHANGED <<state, state_lock, config, pvars, hvars, in_flight, resp, nresp, wire, attempts>>

(***************************************************************************)
(* send_notification and send_progress_notification, up to the write.      *)
(***************************************************************************)
SendNotification(c) ==
    /\ CanCall(c)
    /\ IF NotConnected
       THEN /\ pc' = [pc EXCEPT ![c] = "done"]
            /\ call' = [call EXCEPT ![c] =
                          [NoCall EXCEPT !.op = "send_notification",
                                         !.outcome = "MCPConnectionError",
                                         !.cause = "not_connected"]]
       ELSE /\ pc' = [pc EXCEPT ![c] = "sending"]
            /\ call' = [call EXCEPT ![c] = [NoCall EXCEPT !.op = "send_notification"]]
    /\ UNCHANGED <<state, state_lock, config, pvars, hvars, request_id, tables, wire, attempts>>

SendProgress(c) ==
    /\ CanCall(c)
    /\ IF NotConnected
       THEN /\ pc' = [pc EXCEPT ![c] = "done"]
            /\ call' = [call EXCEPT ![c] =
                          [NoCall EXCEPT !.op = "send_progress",
                                         !.outcome = "MCPConnectionError",
                                         !.cause = "not_connected"]]
       ELSE /\ pc' = [pc EXCEPT ![c] = "sending"]
            /\ call' = [call EXCEPT ![c] = [NoCall EXCEPT !.op = "send_progress"]]
    /\ UNCHANGED <<state, state_lock, config, pvars, hvars, request_id, tables, wire, attempts>>

(***************************************************************************)
(* What the caller of _handle_connection_error does once that call has     *)
(* returned: a public call raises MCPConnectionError (send_request runs    *)
(* its "finally"), a loop goes round.  pcb, rs, ch and s are the task      *)
(* table, the correlation table, the streams and the state at that point.  *)
(***************************************************************************)
AfterHce(t, cs, pcb, rs, ch, s) ==
    IF t \in Callers
    THEN /\ pc' = [pcb EXCEPT ![t] = "done"]
         /\ call' = [call EXCEPT ![t] = Ended(t, "MCPConnectionError", cs)]
         /\ response_streams' =
              IF call[t].op = "send_request" THEN PopEntry(rs, call[t].rid) ELSE rs
         /\ chan' = IF call[t].op = "send_request" THEN CloseChan(ch, call[t].rid) ELSE ch
    ELSE /\ pc' = [pcb EXCEPT ![t] = IF t = HD THEN "run"
                                     ELSE IF t \in Reporters THEN "p_raised"
                                     ELSE LoopPc(s, IF t = RX THEN "rx_wait" ELSE "hb_sleep")]
         /\ response_streams' = rs
         /\ chan' = ch
         /\ UNCHANGED call

(***************************************************************************)
(* _handle_connection_error, from its call to its first suspension point:  *)
(* "async with self._state_lock" (no suspension when the lock is free),    *)
(* the state test, and the call of _update_state(RECONNECTING), which      *)
(* waits for the lock.  cs is why a public call came here.                 *)
(***************************************************************************)
EnterHce(t, cs, rs, ch) ==
    IF ~LockFree(t)
    THEN /\ pc' = [pc EXCEPT ![t] = "hce"]
         /\ call' = IF t \in Callers THEN [call EXCEPT ![t].cause = cs] ELSE call
         /\ response_streams' = rs
         /\ chan' = ch
         /\ UNCHANGED state_lock
    ELSE IF state \in {"DISCONNECTING", "DISCONNECTED"}
    THEN /\ AfterHce(t, cs, pc, rs, ch, state)
         /\ UNCHANGED state_lock
    ELSE /\ pc' = [pc EXCEPT ![t] = "hce_upd"]
         /\ call' = IF t \in Callers THEN [call EXCEPT ![t].cause = cs] ELSE call
         /\ response_streams' = rs
         /\ chan' = ch
         /\ state_lock' = t

(***************************************************************************)
(* _send_message: "await self._write_stream.send(message)" and its except  *)
(* branch, then the except branches of the public method around it.        *)
(***************************************************************************)
Envelope(c) ==
    IF call[c].op = "send_request"
    THEN [kind |-> "request", id |-> call[c].rid]
    ELSE [kind |-> "notification", id |-> 0]

(* _send_message after a successful write: what _last_activity is then (the
   method updates _metrics.last_activity only) *)
AfterSendNow(la, t) == t

AfterSend(la, t) == la

SendWrite(c, ok) ==
    /\ c \in Callers
    /\ pc[c] = "sending"
    /\ IF ok
       THEN /\ wire' = wire \cup {Envelope(c)}
            /\ IF call[c].op = "send_request"
               THEN /\ pc' = [pc EXCEPT ![c] = "waiting"]
                    /\ UNCHANGED call
               ELSE /\ pc' = [pc EXCEPT ![c] = "done"]
                    /\ call' = [call EXCEPT ![c] = Ended(c, "ok", "none")]
            /\ UNCHANGED <<response_streams, chan, state_lock>>
       ELSE /\ UNCHANGED wire
            /\ IF state = "CONNECTED"
               THEN EnterHce(c, "transport", response_streams, chan)
               ELSE /\ UNCHANGED state_lock
                    /\ pc' = [pc EXCEPT ![c] = "done"]
                    /\ call' = [call EXCEPT ![c] = Ended(c, "MCPConnectionError", "transport")]
                    /\ response_streams' =
                         IF call[c].op = "send_request"
                         THEN PopEntry(response_streams, call[c].rid) ELSE response_streams
                    /\ chan' = IF call[c].op = "send_request"
                               THEN CloseChan(chan, call[c].rid) ELSE chan
    /\ last_activity' = IF ok THEN AfterSend(last_activity, now) ELSE last_activity
    /\ UNCHANGED <<state, config, pvars, last_heartbeat, request_id, in_flight, resp, nresp,
                   attempts>>

(***************************************************************************)
(* send_request: "response_stream_reader.receive()" returns or raises.     *)
(***************************************************************************)
Wake(c) ==
    /\ c \in Callers
    /\ pc[c] = "waiting"
    /\ LET id == call[c].rid
           item == chan[id].item
           taken == [chan EXCEPT ![id].item = "none", ![id].src = 0]
           ended(out, cs) == [Ended(c, out, cs) EXCEPT !.got = chan[id].src]
       IN /\ item # "none" \/ chan[id].sendClosed
          /\ IF item = "result_ok"
             THEN /\ pc' = [pc EXCEPT ![c] = "done"]
                  /\ call' = [call EXCEPT ![c] = ended("result", "response")]
                  /\ response_streams' = PopEntry(response_streams, id)
                  /\ chan' = CloseChan(taken, id)
                  /\ UNCHANGED state_lock
             ELSE IF item = "error"
             THEN /\ pc' = [pc EXCEPT ![c] = "done"]
                  /\ call' = [call EXCEPT ![c] = ended("McpError", "peer_error")]
                  /\ response_streams' = PopEntry(response_streams, id)
                  /\ chan' = CloseChan(taken, id)
                  /\ UNCHANGED state_lock
             ELSE \* MCPValidationError or EndOfStream: neither McpError nor MCPTimeoutError
                  LET why == IF item = "result_bad" THEN "validation" ELSE "closed"
                  IN IF state = "CONNECTED"
                     THEN EnterHce(c, why, response_streams, taken)
                     ELSE /\ UNCHANGED state_lock
                          /\ pc' = [pc EXCEPT ![c] = "done"]
                          /\ call' = [call EXCEPT ![c] = Ended(c, "MCPConnectionError", why)]
                          /\ response_streams' = PopEntry(response_streams, id)
                          /\ chan' = CloseChan(taken, id)
    /\ UNCHANGED <<state, config, pvars, hvars, request_id, in_flight, resp, nresp, wire, attempts>>

(* anyio.fail_after(timeout_seconds) expires while the caller waits: TimeoutError
   becomes MCPTimeoutError, which the outer except branch raises again *)
TimeoutAsConnectionError(c) ==
    /\ c \in Callers
    /\ pc[c] = "waiting"
    /\ pc' = [pc EXCEPT ![c] = "done"]
    /\ call' = [call EXCEPT ![c] = Ended(c, "MCPConnectionError", "timeout")]
    /\ response_streams' = PopEntry(response_streams, call[c].rid)
    /\ chan' = CloseChan(chan, call[c].rid)
    /\ UNCHANGED <<state, state_lock, config, pvars, hvars, request_id, in_flight, resp, nresp, wire, attempts>>

Timeout(c) ==
    /\ c \in Callers
    /\ pc[c] = "waiting"
    /\ pc' = [pc EXCEPT ![c] = "done"]
    /\ call' = [call EXCEPT ![c] = Ended(c, "MCPTimeoutError", "timeout")]
    /\ response_streams' = PopEntry(response_streams, call[c].rid)
    /\ chan' = CloseChan(chan, call[c].rid)
    /\ UNCHANGED <<state, state_lock, config, pvars, hvars, request_id, in_flight, resp, nresp, wire, attempts>>

(***************************************************************************)
(* The caller's task is cancelled while a public call is suspended:        *)
(* CancelledError leaves every "async with" and runs every "finally".      *)
(***************************************************************************)
Suspended ==
    {"start", "start_upd1", "start_upd2", "stop", "stop_upd1", "stop_upd2",
     "sending", "waiting", "hce", "hce_upd"}

Cancel(c) ==
    /\ c \in Callers
    /\ pc[c] \in Suspended
    /\ pc' = [pc EXCEPT ![c] = "done"]
    /\ call' = [call EXCEPT ![c] = Ended(c, "cancelled", "cancelled")]
    /\ state_lock' = IF state_lock = c THEN NoTask ELSE state_lock
    /\ response_streams' =
         IF call[c].op = "send_request"
         THEN PopEntry(response_streams, call[c].rid) ELSE response_streams
    /\ chan' = IF call[c].op = "send_request" THEN CloseChan(chan, call[c].rid) ELSE chan
    /\ UNCHANGED <<state, config, pvars, hvars, request_id, in_flight, resp, nresp, wire, attempts>>

(***************************************************************************)
(* _handle_connection_error: a task that found the lock held gets it.      *)
(***************************************************************************)
HceEnter(t) ==
    /\ t \in Tasks
    /\ pc[t] = "hce"
    /\ LockFree(t)
    /\ EnterHce(t, IF t \in Callers THEN call[t].cause ELSE "none", response_streams, chan)
    /\ UNCHANGED <<state, config, pvars, hvars, request_id, in_flight, resp, nresp, wire, attempts>>

(***************************************************************************)
(* _update_state: "async with self._state_lock" and the assignment, then   *)
(* the code of the calling method up to its next suspension point.         *)
(*   start_upd1  __aenter__: _update_state(CONNECTING), inside the lock    *)
(*   start_upd2  __aenter__: _update_state(CONNECTED), inside the lock     *)
(*   stop_upd1   __aexit__: _update_state(DISCONNECTING), inside the lock  *)
(*   stop_upd2   __aexit__: _update_state(DISCONNECTED), outside the lock  *)
(*   hce_upd     _handle_connection_error: _update_state(RECONNECTING),    *)
(*               inside the lock                                           *)
(*   rc_upd_ok   _reconnect_loop: _update_state(CONNECTED)                 *)
(*   rc_upd_err  _reconnect_loop: _update_state(ERROR)                     *)
(***************************************************************************)
UpdPcs ==
    {"start_upd1", "start_upd2", "stop_upd1", "stop_upd2", "hce_upd", "rc_upd_ok", "rc_upd_err"}

Released(t) == IF state_lock = t THEN NoTask ELSE state_lock

UpdateState(t) ==
    /\ t \in Tasks
    /\ pc[t] \in UpdPcs
    /\ LockFree(t)
    /\ CASE pc[t] = "start_upd1" ->
              \* task group entered, receive loop and heartbeat task created
              /\ state' = UpdateStateTo(state, "CONNECTING")
              /\ pc' = [pc EXCEPT ![t] = "start_upd2",
                                  ![RX] = "rx_wait",
                                  ![HB] = IF heartbeat_on THEN "hb_sleep" ELSE @]
              /\ UNCHANGED <<state_lock, call, tables, attempts>>
         [] pc[t] = "start_upd2" ->
              /\ state' = UpdateStateTo(state, "CONNECTED")
              /\ pc' = [pc EXCEPT ![t] = "done"]
              /\ call' = [call EXCEPT ![t] = Ended(t, "ok", "none")]
              /\ state_lock' = Released(t)
              /\ UNCHANGED <<tables, attempts>>
         [] pc[t] = "stop_upd1" ->
              \* lock released; heartbeat task, reconnect task and task group
              \* cancelled; streams closed; both tables cleared
              /\ state' = UpdateStateTo(state, "DISCONNECTING")
              /\ state_lock' = Released(t)
              /\ pc' = [pc EXCEPT ![t] = "stop_upd2", ![RX] = "off", ![HB] = "off", ![RC] = "off"]
              /\ chan' = CloseSendEnds(chan, response_streams)
              /\ response_streams' = {}
              /\ in_flight' = NoInFlight
              /\ UNCHANGED <<call, resp, nresp, attempts>>
         [] pc[t] = "stop_upd2" ->
              /\ state' = UpdateStateTo(state, "DISCONNECTED")
              /\ pc' = [pc EXCEPT ![t] = "done"]
              /\ call' = [call EXCEPT ![t] = Ended(t, "ok", "none")]
              /\ UNCHANGED <<state_lock, tables, attempts>>
         [] pc[t] = "hce_upd" ->
              \* responders cancelled, streams closed, correlation table
              \* cleared, reconnect task created, lock released
              /\ state' = UpdateStateTo(state, "RECONNECTING")
              /\ resp' = CancelResponders(resp)
              /\ in_flight' = PopCancelled(in_flight)
              /\ attempts' = IF reconnect_attempts > 0 THEN 0 ELSE attempts
              /\ state_lock' = Released(t)
              /\ AfterHce(t, IF t \in Callers THEN call[t].cause ELSE "none",
                          IF reconnect_attempts > 0 THEN [pc EXCEPT ![RC] = "rc_attempt"] ELSE pc,
                          {},
                          CloseSendEnds(chan, response_streams),
                          state')
              /\ UNCHANGED nresp
         [] pc[t] = "rc_upd_ok" ->
              /\ state' = UpdateStateTo(state, "CONNECTED")
              /\ pc' = [pc EXCEPT ![t] = "off"]
              /\ UNCHANGED <<state_lock, call, tables, attempts>>
         [] pc[t] = "rc_upd_err" ->
              /\ state' = UpdateStateTo(state, "ERROR")
              /\ pc' = [pc EXCEPT ![t] = "off"]
              /\ UNCHANGED <<state_lock, call, tables, attempts>>
    /\ UNCHANGED <<config, pvars, hvars, request_id, wire>>

(***************************************************************************)
(* _reconnect_loop.                                                        *)
(***************************************************************************)
(* one iteration: attempts += 1, _reset_connection, _initialize_connection
   (the hook succeeds or raises), and the except branch *)
RcAttempt(ok) ==
    /\ pc[RC] = "rc_attempt"
    /\ IF attempts < reconnect_attempts
       THEN /\ attempts' = attempts + 1
            /\ in_flight' = NoInFlight
            /\ chan' = CloseSendEnds(chan, response_streams)
            /\ response_streams' = {}
            /\ pc' = [pc EXCEPT ![RC] =
                        IF ok THEN "rc_upd_ok"
                        ELSE IF attempts' < reconnect_attempts THEN "rc_sleep"
                        ELSE "rc_upd_err"]
       ELSE /\ pc' = [pc EXCEPT ![RC] = "rc_upd_err"]
            /\ UNCHANGED <<attempts, in_flight, chan, response_streams>>
    /\ UNCHANGED <<state, state_lock, config, pvars, hvars, request_id, resp, nresp, wire, call>>

(* asyncio.sleep(self._reconnect_delay) returns *)
RcWake ==
    /\ pc[RC] = "rc_sleep"
    /\ pc' = [pc EXCEPT ![RC] = "rc_attempt"]
    /\ UNCHANGED <<state, state_lock, config, pvars, hvars, request_id, tables, wire, call, attempts>>

(***************************************************************************)
(* _receive_loop: one item of the read stream.  Whatever the item is, the  *)
(* loop first sets _last_activity to the time of its arrival.              *)
(***************************************************************************)
ResponseKinds == {"result_ok", "result_bad", "error"}

(* the key _handle_response looks up: self._response_streams.pop(root.id, None) *)
StreamKeyOldest(i) ==
    IF response_streams = {} THEN i
    ELSE CHOOSE k \in response_streams : \A j \in response_streams : k <= j

StreamKey(i) == i

(* _handle_response when the pop found no stream: where the receive loop is
   next.  "rx_anomaly": inside _handle_incoming(RuntimeError(...)) *)
Unmatched(s) == "rx_anomaly"

(* a JSONRPCResponse or JSONRPCError with id i: _handle_response *)
RxResponse(i, kind) ==
    /\ pc[RX] = "rx_wait"
    /\ last_activity' = now
    /\ i \in RequestIds
    /\ kind \in ResponseKinds
    /\ LET k == StreamKey(i)
       IN IF k \in response_streams
          THEN /\ response_streams' = response_streams \ {k}
               /\ chan' = IF chan[k].sendClosed \/ chan[k].recvClosed
                          THEN chan
                          ELSE [chan EXCEPT ![k].item = kind, ![k].src = i]
               /\ pc' = [pc EXCEPT ![RX] = LoopPc(state, "rx_wait")]
          ELSE /\ pc' = [pc EXCEPT ![RX] = Unmatched(state)]
               /\ UNCHANGED <<response_streams, chan>>
    /\ UNCHANGED <<state, state_lock, config, pvars, last_heartbeat, request_id, in_flight, resp, nresp, wire,
                   call, attempts>>

(* the generic hook called for an unmatched response returns, or raises into
   the except branch of _receive_loop *)
RxAnomalyEnd(raised) ==
    /\ pc[RX] = "rx_anomaly"
    /\ IF raised /\ state = "CONNECTED"
       THEN EnterHce(RX, "none", response_streams, chan)
       ELSE /\ pc' = [pc EXCEPT ![RX] = LoopPc(state, "rx_wait")]
            /\ UNCHANGED <<state_lock, call, response_streams, chan>>
    /\ UNCHANGED <<state, config, pvars, hvars, request_id, in_flight, resp, nresp, wire, attempts>>

(* an Exception item: _handle_connection_error(message) *)
RxTransportError ==
    /\ pc[RX] = "rx_wait"
    /\ last_activity' = now
    /\ EnterHce(RX, "none", response_streams, chan)
    /\ UNCHANGED <<state, config, pvars, last_heartbeat, request_id, in_flight, resp, nresp, wire, attempts>>

(* a JSONRPCRequest with id i: _handle_incoming_request up to the first
   suspension point of the hook _received_request *)
RegisterRequest(i) ==
    /\ pc[RX] = "rx_wait"
    /\ last_activity' = now
    /\ i \in InboundIds
    /\ nresp' = nresp + 1
    /\ resp' = [resp EXCEPT ![nresp'] = [FreshResponder EXCEPT !.id = i, !.hook = TRUE]]
    /\ in_flight' = [in_flight EXCEPT ![i] = nresp']
    /\ pc' = [pc EXCEPT ![RX] = "rx_hook"]
    /\ UNCHANGED <<state, state_lock, config, pvars, last_heartbeat, request_id,
                   response_streams, chan, wire, call, attempts>>

RxRequest(i) ==
    /\ nresp < MaxResponders
    /\ RegisterRequest(i)

(* the same, for a request whose id is the key of an entry of _in_flight *)
RxDuplicate(i) ==
    /\ i \in InboundIds
    /\ in_flight[i] # 0
    /\ nresp < MaxResponders + MaxDuplicates
    /\ RegisterRequest(i)

(* "if not responder._completed" after _received_request has returned *)
ForwardAlways(r) == TRUE

ForwardToGeneric(r) == ~r.completed

(* the hook the receive loop is in returns ("rx_hook": _received_request,
   "rx_generic": _handle_incoming), or raises and the except branch sends an
   error response with the request's id (ok: the write succeeds) *)
RxHookEnd(raised, ok) ==
    /\ pc[RX] \in {"rx_hook", "rx_generic"}
    /\ \E h \in 1..nresp :
         /\ resp[h].hook
         /\ IF ~raised /\ pc[RX] = "rx_hook" /\ ForwardToGeneric(resp[h])
            THEN /\ pc' = [pc EXCEPT ![RX] = "rx_generic"]
                 /\ UNCHANGED <<resp, wire, state_lock, call, response_streams, chan>>
            ELSE IF ~raised
            THEN /\ resp' = [resp EXCEPT ![h].hook = FALSE]
                 /\ pc' = [pc EXCEPT ![RX] = LoopPc(state, "rx_wait")]
                 /\ UNCHANGED <<wire, state_lock, call, response_streams, chan>>
            ELSE IF ok
            THEN /\ resp' = [resp EXCEPT ![h].hook = FALSE, ![h].sent = @ + 1]
                 /\ wire' = wire \cup {[kind |-> "response", id |-> resp[h].id]}
                 /\ pc' = [pc EXCEPT ![RX] = LoopPc(state, "rx_wait")]
                 /\ UNCHANGED <<state_lock, call, response_streams, chan>>
            ELSE /\ resp' = [resp EXCEPT ![h].hook = FALSE]
                 /\ UNCHANGED wire
                 /\ IF state = "CONNECTED"
                    THEN EnterHce(RX, "none", response_streams, chan)
                    ELSE /\ pc' = [pc EXCEPT ![RX] = LoopPc(state, "rx_wait")]
                         /\ UNCHANGED <<state_lock, call, response_streams, chan>>
    /\ UNCHANGED <<state, config, pvars, hvars, request_id, in_flight, nresp, attempts>>

(* a CancelledNotification naming id i: _handle_notification *)
RxCancelled(i) ==
    /\ pc[RX] = "rx_wait"
    /\ last_activity' = now
    /\ i \in InboundIds
    /\ IF in_flight[i] # 0
       THEN /\ resp' = [resp EXCEPT ![in_flight[i]] = CancelOne(@)]
            /\ in_flight' = IF resp[in_flight[i]].completed
                            THEN in_flight
                            ELSE OnComplete(in_flight, resp[in_flight[i]].id)
       ELSE UNCHANGED <<resp, in_flight>>
    /\ pc' = [pc EXCEPT ![RX] = LoopPc(state, "rx_wait")]
    /\ UNCHANGED <<state, state_lock, config, pvars, last_heartbeat, request_id, response_streams, chan, nresp,
                   wire, call, attempts>>

(* a notification that is no CancelledNotification: _handle_notification up
   to the first suspension point of the hook _received_notification *)
RxNotification ==
    /\ pc[RX] = "rx_wait"
    /\ last_activity' = now
    /\ pc' = [pc EXCEPT ![RX] = "rx_nhook"]
    /\ UNCHANGED <<state, state_lock, config, pvars, last_heartbeat, request_id, tables, wire, call, attempts>>

(* the hook the receive loop is in returns ("rx_nhook": _received_notification,
   then _handle_incoming is called; "rx_ngeneric": _handle_incoming), or
   raises and the except branch logs the exception *)
RxNotifHookEnd(raised) ==
    /\ pc[RX] \in {"rx_nhook", "rx_ngeneric"}
    /\ pc' = [pc EXCEPT ![RX] = IF ~raised /\ pc[RX] = "rx_nhook"
                                THEN "rx_ngeneric"
                                ELSE LoopPc(state, "rx_wait")]
    /\ UNCHANGED <<state, state_lock, config, pvars, hvars, request_id, tables, wire, call, attempts>>

(***************************************************************************)
(* RequestResponder in the hands of the code that handles the request.     *)
(***************************************************************************)
(* __enter__ *)
Enter(h) ==
    /\ h \in 1..nresp
    /\ pc[HD] = "run"
    /\ ~resp[h].entered
    /\ resp[h].entries < MaxEntries
    /\ resp' = [resp EXCEPT ![h].entered = TRUE, ![h].cancel_called = FALSE,
                            ![h].entries = @ + 1]
    /\ UNCHANGED <<state, state_lock, config, pvars, hvars, request_id, response_streams, chan, in_flight,
                   nresp, wire, pc, call, attempts>>

(* __exit__ *)
Exit(h) ==
    /\ h \in 1..nresp
    /\ resp[h].entered
    /\ IF resp[h].completed
       THEN /\ resp' = [resp EXCEPT ![h].entered = FALSE, ![h].ncomplete = @ + 1]
            /\ in_flight' = OnComplete(in_flight, resp[h].id)
       ELSE /\ resp' = [resp EXCEPT ![h].entered = FALSE]
            /\ UNCHANGED in_flight
    /\ UNCHANGED <<state, state_lock, config, pvars, hvars, request_id, response_streams, chan, nresp,
                   wire, pc, call, attempts>>

(* respond; ok: the write of the envelope succeeds *)
Respond(h, ok) ==
    /\ h \in 1..nresp
    /\ pc[HD] = "run"
    /\ IF ~resp[h].entered
       THEN /\ resp' = [resp EXCEPT ![h].last = "RuntimeError"]
            /\ UNCHANGED <<in_flight, wire, pc, state_lock, call, response_streams, chan>>
       ELSE IF resp[h].completed
       THEN /\ resp' = [resp EXCEPT ![h].last = "AssertionError"]
            /\ UNCHANGED <<in_flight, wire, pc, state_lock, call, response_streams, chan>>
       ELSE IF TimedOut(resp[h])
       THEN /\ resp' = [resp EXCEPT ![h].completed = TRUE, ![h].term = "timedout",
                                    ![h].ncomplete = @ + 1, ![h].last = "MCPTimeoutError"]
            /\ in_flight' = OnComplete(in_flight, resp[h].id)
            /\ UNCHANGED <<wire, pc, state_lock, call, response_streams, chan>>
       ELSE IF ok
       THEN /\ resp' = [resp EXCEPT ![h].completed = TRUE, ![h].term = "responded",
                                    ![h].sent = @ + 1, ![h].last = "sent"]
            /\ wire' = wire \cup {[kind |-> "response", id |-> resp[h].id]}
            /\ UNCHANGED <<in_flight, pc, state_lock, call, response_streams, chan>>
       ELSE /\ resp' = [resp EXCEPT ![h].completed = TRUE, ![h].term = "responded",
                                    ![h].last = "MCPConnectionError"]
            /\ UNCHANGED <<in_flight, wire>>
            /\ IF state = "CONNECTED"
               THEN EnterHce(HD, "none", response_streams, chan)
               ELSE UNCHANGED <<pc, state_lock, call, response_streams, chan>>
    /\ UNCHANGED <<state, config, pvars, hvars, request_id, nresp, attempts>>

(* cancel, called by the handling code *)
CancelResp(h) ==
    /\ h \in 1..nresp
    /\ resp' = [resp EXCEPT ![h] = CancelOne(@)]
    /\ in_flight' = IF resp[h].completed THEN in_flight ELSE OnComplete(in_flight, resp[h].id)
    /\ UNCHANGED <<state, state_lock, config, pvars, hvars, request_id, response_streams, chan, nresp,
                   wire, pc, call, attempts>>

(* time passes: more than _timeout since _start_time *)
Elapse(h) ==
    /\ h \in 1..nresp
    /\ ~resp[h].completed
    /\ ~resp[h].expired
    /\ resp' = [resp EXCEPT ![h].expired = TRUE]
    /\ UNCHANGED <<state, state_lock, config, pvars, hvars, request_id, response_streams, chan, in_flight,
                   nresp, wire, pc, call, attempts>>

(***************************************************************************)
(* _check_connection: the connection counts as dead when more than twice   *)
(* the heartbeat interval has passed since _last_activity.                 *)
(***************************************************************************)
StaleNever(t, la) == FALSE

Stale(t, la) == t - la > HeartbeatInterval * 2

(* _heartbeat_loop: "_last_heartbeat is None or more than the interval ago" *)
HeartbeatDueAlways(t, lh) == TRUE

HeartbeatDue(t, lh) == lh = NoBeat \/ t - lh > HeartbeatInterval

(***************************************************************************)
(* _heartbeat_loop: one tick, from the return of asyncio.sleep to the next *)
(* suspension point.  fails: send_heartbeat raises.                        *)
(***************************************************************************)
HbTick(fails) ==
    /\ pc[HB] = "hb_sleep"
    /\ IF state # "CONNECTED"
       THEN /\ pc' = [pc EXCEPT ![HB] = LoopPc(state, "hb_sleep")]
            /\ UNCHANGED <<state_lock, call, response_streams, chan, last_heartbeat>>
       ELSE IF Stale(now, last_activity)
       THEN /\ EnterHce(HB, "none", response_streams, chan)
            /\ UNCHANGED last_heartbeat
       ELSE IF ~HeartbeatDue(now, last_heartbeat)
       THEN /\ pc' = [pc EXCEPT ![HB] = LoopPc(state, "hb_sleep")]
            /\ UNCHANGED <<state_lock, call, response_streams, chan, last_heartbeat>>
       ELSE IF fails
       THEN /\ EnterHce(HB, "none", response_streams, chan)
            /\ UNCHANGED last_heartbeat
       ELSE /\ last_heartbeat' = now
            /\ pc' = [pc EXCEPT ![HB] = LoopPc(state, "hb_sleep")]
            /\ UNCHANGED <<state_lock, call, response_streams, chan>>
    /\ UNCHANGED <<state, config, pvars, last_activity, request_id, in_flight, resp, nresp, wire,
                   attempts>>

(***************************************************************************)
(* ProgressContext (progress.py).  The user tasks run the body of the      *)
(* "with progress(ctx)" block; FIN is the task its "finally" creates.      *)
(***************************************************************************)
Amounts == {-1, 0, 1}
Currents == {-1, MaxCurrent}

(* "if amount < 0" of progress, "if current < 0" of set_progress *)
RejectedNever(x) == FALSE

Rejected(x) == x < 0

(* progress: current_time - self._last_reported >= self._min_report_interval *)
ReportDue(ctx, t) == t - ctx.last_reported >= MinReportInterval

(* the "finally" of the progress() scope reports without a test *)
FinalReportThrottled(ctx, t) == ReportDue(ctx, t)

FinalReportDue(ctx, t) == TRUE

(* where a reporting task is once its call has ended *)
Rest(u) == IF u = FIN THEN "p_done" ELSE "idle"

(* _report_progress: send_progress_notification(token, self.current, ...) up
   to "await self._write_stream.send(message)"; c is the call so far *)
StartReport(u, c, value) ==
    IF NotConnected
    THEN /\ pcall' = [pcall EXCEPT ![u] = [c EXCEPT !.value = value,
                                                   !.outcome = "MCPConnectionError"]]
         /\ pc' = [pc EXCEPT ![u] = Rest(u)]
    ELSE /\ pcall' = [pcall EXCEPT ![u] = [c EXCEPT !.value = value]]
         /\ pc' = [pc EXCEPT ![u] = "p_sending"]

RECURSIVE SumCalls(_)
SumCalls(us) ==
    IF us = {} THEN 0
    ELSE LET u == CHOOSE x \in us : TRUE IN pcall[u].n + SumCalls(us \ {u})

CallsMade == SumCalls(Users)

CanReport(u) ==
    /\ u \in Users
    /\ pc[u] = "idle"
    /\ scope = "open"
    /\ CallsMade < MaxCalls

NewPCall(u, op, arg) ==
    [NoPCall EXCEPT !.op = op, !.arg = arg, !.t = now, !.n = pcall[u].n + 1]

(* ProgressContext.progress(amount), up to the write of its report *)
Progress(u, amount) ==
    /\ CanReport(u)
    /\ amount \in Amounts
    /\ IF Rejected(amount)
       THEN /\ pcall' = [pcall EXCEPT ![u] =
                           [NewPCall(u, "progress", amount) EXCEPT !.outcome = "ValueError"]]
            /\ UNCHANGED <<progress_ctx, pc>>
       ELSE /\ progress_ctx.current + amount <= MaxCurrent
            /\ progress_ctx' = [progress_ctx EXCEPT !.current = @ + amount]
            /\ IF ReportDue(progress_ctx, now)
               THEN StartReport(u, NewPCall(u, "progress", amount), progress_ctx'.current)
               ELSE /\ pcall' = [pcall EXCEPT ![u] =
                                   [NewPCall(u, "progress", amount) EXCEPT !.outcome = "ok"]]
                    /\ UNCHANGED pc
    /\ UNCHANGED <<state, state_lock, config, hvars, request_id, tables, wire, call, attempts,
                   now, scope, reports>>

(* ProgressContext.set_progress(current), up to the write of its report *)
SetProgress(u, current) ==
    /\ CanReport(u)
    /\ current \in Currents
    /\ IF Rejected(current)
       THEN /\ pcall' = [pcall EXCEPT ![u] =
                           [NewPCall(u, "set_progress", current) EXCEPT !.outcome = "ValueError"]]
            /\ UNCHANGED <<progress_ctx, pc>>
       ELSE /\ progress_ctx' = [progress_ctx EXCEPT !.current = current]
            /\ StartReport(u, NewPCall(u, "set_progress", current), current)
    /\ UNCHANGED <<state, state_lock, config, hvars, request_id, tables, wire, call, attempts,
                   now, scope, reports>>

(* "await self._write_stream.send(message)" of a report returns (ok) or
   raises; progress() then stores the time it read in _last_reported *)
ReportWrite(u, ok) ==
    /\ u \in Reporters
    /\ pc[u] = "p_sending"
    /\ IF ok
       THEN /\ wire' = wire \cup {[kind |-> "notification", id |-> 0]}
            /\ reports' = Append(reports, [by |-> pcall[u].op, at |-> pcall[u].t,
                                           value |-> pcall[u].value])
            /\ progress_ctx' = IF pcall[u].op = "progress"
                               THEN [progress_ctx EXCEPT !.last_reported = pcall[u].t]
                               ELSE progress_ctx
            /\ pcall' = [pcall EXCEPT ![u].outcome = "ok"]
            /\ pc' = [pc EXCEPT ![u] = Rest(u)]
            /\ UNCHANGED <<state_lock, call, response_streams, chan>>
       ELSE /\ UNCHANGED <<wire, reports, progress_ctx>>
            /\ IF state = "CONNECTED"
               THEN /\ EnterHce(u, "transport", response_streams, chan)
                    /\ UNCHANGED pcall
               ELSE /\ pcall' = [pcall EXCEPT ![u].outcome = "MCPConnectionError"]
                    /\ pc' = [pc EXCEPT ![u] = Rest(u)]
                    /\ UNCHANGED <<state_lock, call, response_streams, chan>>
    /\ UNCHANGED <<state, config, hvars, request_id, in_flight, resp, nresp, attempts, now, scope>>

(* the "with progress(ctx)" block is left, normally or by an exception of its
   body (exc): asyncio.create_task(progress_ctx._report_progress()) *)
ScopeEnd(exc) ==
    /\ scope = "open"
    /\ scope' = IF exc THEN "raised" ELSE "left"
    /\ pc' = IF FinalReportDue(progress_ctx, now) THEN [pc EXCEPT ![FIN] = "p_start"] ELSE pc
    /\ UNCHANGED <<state, state_lock, config, hvars, request_id, tables, wire, call, attempts,
                   progress_ctx, now, pcall, reports>>

(* the event loop runs the task of the final report *)
FinalRun ==
    /\ pc[FIN] = "p_start"
    /\ StartReport(FIN, NewPCall(FIN, "final", 0), progress_ctx.current)
    /\ UNCHANGED <<state, state_lock, config, hvars, request_id, tables, wire, call, attempts,
                   progress_ctx, now, scope, reports>>

(* time passes: time.time() and datetime.utcnow() advance *)
Tick ==
    /\ now < Epoch + MaxTicks
    /\ now' = now + 1
    /\ UNCHANGED <<state, state_lock, config, hvars, request_id, tables, wire, pc, call, attempts,
                   progress_ctx, scope, pcall, reports>>

Reporting ==
    \/ \E u \in Users, amount \in Amounts : Progress(u, amount)
    \/ \E u \in Users, current \in Currents : SetProgress(u, current)
    \/ \E u \in Reporters, ok \in BOOLEAN : ReportWrite(u, ok)
    \/ \E exc \in BOOLEAN : ScopeEnd(exc)
    \/ FinalRun
    \/ Tick

(***************************************************************************)
(* Specifications.                                                         *)
(***************************************************************************)
Api ==
    \E c \in Callers :
        \/ CallStart(c)
        \/ StartEnter(c)
        \/ CallStop(c)
        \/ StopEnter(c)
        \/ SendRequest(c)
        \/ SendNotification(c)
        \/ SendProgress(c)
        \/ Cancel(c)

Live ==
    \/ \E c \in Callers, ok \in BOOLEAN : SendWrite(c, ok)
    \/ \E c \in Callers : Wake(c)
    \/ \E c \in Callers : Timeout(c)
    \/ \E t \in Tasks : HceEnter(t)
    \/ \E t \in Tasks : UpdateState(t)
    \/ \E ok \in BOOLEAN : RcAttempt(ok)
    \/ RcWake
    \/ \E i \in RequestIds, k \in ResponseKinds : RxResponse(i, k)
    \/ \E raised \in BOOLEAN : RxAnomalyEnd(raised)
    \/ RxTransportError
    \/ \E i \in InboundIds : RxRequest(i)
    \/ \E i \in InboundIds : RxCancelled(i)
    \/ \E raised, ok \in BOOLEAN : RxHookEnd(raised, ok)

(* the code that handles inbound requests (hooks of a subclass, or the
   consumer they hand the responder to) *)
Handling ==
    \E h \in Handles :
        \/ Enter(h)
        \/ Exit(h)
        \/ \E ok \in BOOLEAN : Respond(h, ok)
        \/ CancelResp(h)
        \/ Elapse(h)

(* the session serving inbound requests, no public call in progress; with no
   caller to cancel, a task that waits for a held state lock waits forever *)
Serve ==
    \/ \E t \in Tasks : UpdateState(t)
    \/ \E ok \in BOOLEAN : RcAttempt(ok)
    \/ RcWake
    \/ RxTransportError
    \/ \E i \in InboundIds : RxRequest(i)
    \/ \E i \in InboundIds : RxCancelled(i)
    \/ \E raised, ok \in BOOLEAN : RxHookEnd(raised, ok)
    \/ RxNotification
    \/ \E raised \in BOOLEAN : RxNotifHookEnd(raised)
    \/ \E fails \in BOOLEAN : HbTick(fails)
    \/ Handling

(* the running session as time passes: the heartbeat task, the receive loop
   and callers that send *)
Beat ==
    \/ Tick
    \/ \E fails \in BOOLEAN : HbTick(fails)
    \/ RxNotification
    \/ \E raised \in BOOLEAN : RxNotifHookEnd(raised)
    \/ RxTransportError
    \/ \E c \in Callers : SendNotification(c)
    \/ \E c \in Callers : SendRequest(c)
    \/ \E c \in Callers, ok \in BOOLEAN : SendWrite(c, ok)
    \/ \E c \in Callers : Timeout(c)
    \/ \E t \in Tasks : UpdateState(t)
    \/ \E ok \in BOOLEAN : RcAttempt(ok)
    \/ RcWake

(* the session serving inbound requests whose ids may repeat *)
Dup ==
    \/ \E i \in InboundIds : RxRequest(i)
    \/ \E i \in InboundIds : RxDuplicate(i)
    \/ \E raised, ok \in BOOLEAN : RxHookEnd(raised, ok)
    \/ \E i \in InboundIds : RxCancelled(i)
    \/ Handling

Next == Api

NextLive == Api \/ Live

NextServe == Serve

NextProgress == Reporting

NextBeat == Beat

NextDup == Dup

(* the session from its construction *)
Spec == Init /\ [][Next]_vars

(* the session from any connection state *)
SpecLive == InitLive /\ [][NextLive]_vars

(* the session from any connection state, serving inbound requests *)
SpecServe == InitLive /\ [][NextServe]_vars

(* a progress() scope on a session in any connection state *)
InitProgress == InitLive /\ ~heartbeat_on /\ reconnect_attempts = MaxAttemptsCfg

SpecProgress == InitProgress /\ [][NextProgress]_vars

(* a session with a heartbeat task, in any connection state, whose last
   received item and last heartbeat lie anywhere in the past *)
InitBeat ==
    /\ InitFields
    /\ InitTasks
    /\ heartbeat_on
    /\ reconnect_attempts = MaxAttemptsCfg
    /\ last_activity \in 0..now
    /\ last_heartbeat \in {NoBeat} \cup (0..now)

SpecBeat == InitBeat /\ [][NextBeat]_vars

(* a Connected session without heartbeat task *)
InitDup == InitLive /\ state = "CONNECTED" /\ ~heartbeat_on

SpecDup == InitDup /\ [][NextDup]_vars

(***************************************************************************)
(* Fairness: the event loop runs every task that can run, sleeps and       *)
(* timeouts expire.  What the peer, the callers and the handlers do is not *)
(* forced.                                                                 *)
(***************************************************************************)
FairApi ==
    \A c \in Callers : WF_vars(StartEnter(c)) /\ WF_vars(StopEnter(c))

FairLive ==
    /\ \A c \in Callers : WF_vars(\E ok \in BOOLEAN : SendWrite(c, ok))
    /\ \A c \in Callers : WF_vars(Wake(c)) /\ WF_vars(Timeout(c))
    /\ \A t \in Tasks : WF_vars(HceEnter(t)) /\ WF_vars(UpdateState(t))
    /\ WF_vars(\E ok \in BOOLEAN : RcAttempt(ok))
    /\ WF_vars(RcWake)

FairSpec == Spec /\ FairApi

FairSpecLive == SpecLive /\ FairApi /\ FairLive

FairServe ==
    /\ \A t \in Tasks : WF_vars(UpdateState(t))
    /\ WF_vars(\E ok \in BOOLEAN : RcAttempt(ok))
    /\ WF_vars(RcWake)

FairSpecServe == SpecServe /\ FairServe

(* the event loop runs the task that asyncio.create_task created *)
FairReporting == WF_vars(FinalRun)

FairSpecProgress == SpecProgress /\ FairReporting

(***************************************************************************)
(* Properties.                                                             *)
(***************************************************************************)
SendOps == {"send_request", "send_notification", "send_progress"}

Waiting(c) == pc[c] = "waiting"

(* C1: a send_request call that has ended has one outcome, which no later step
   changes, and whatever the exit path its request id is no key of the
   correlation table and both ends of its response stream are closed. *)
C1_Clean ==
    \A c \in Callers :
        (call[c].op = "send_request" /\ pc[c] = "done")
        => /\ call[c].outcome # "none"
           /\ call[c].rid # 0 =>
                /\ call[c].rid \notin response_streams
                /\ chan[call[c].rid].sendClosed
                /\ chan[call[c].rid].recvClosed

C1_Stable ==
    \A c \in Callers : pc[c] = "done" => (pc'[c] = "done" /\ call'[c] = call[c])

C1_OneOutcomeCleanExit == [](C1_Clean) /\ [][C1_Stable]_vars

C1_Witness ==
    \E c, d \in Callers :
        /\ pc[c] = "done" /\ call[c].rid # 0 /\ call[c].outcome = "result"
        /\ pc[d] = "done" /\ call[d].rid # 0 /\ call[d].outcome = "MCPTimeoutError"

(* C2: the correlation table never holds more than max_in_flight entries. *)
C2_OutstandingBounded == Cardinality(response_streams) <= max_in_flight

StopCalled == \E c \in Callers : call[c].op = "stop"

(* C3: a transport error received by the receive loop while the state is
   CONNECTED and a send_request waits for its response leads, unless stop() is
   called, to the state RECONNECTING. *)
C3_ErrorLeadsToReconnecting ==
    (pc[RX] \in {"hce", "hce_upd"} /\ state = "CONNECTED" /\ \E c \in Callers : Waiting(c))
    ~> (state = "RECONNECTING" \/ StopCalled)

(* C4: a reconnection loop whose hook fails every time ends, unless stop() is
   called, after reconnect_attempts attempts with the state ERROR. *)
C4_LoopReachesError ==
    (state = "RECONNECTING" /\ pc[RC] = "rc_attempt" /\ attempts = 0)
    ~> \/ pc[RC] = "rc_upd_ok"
       \/ StopCalled
       \/ state = "ERROR" /\ attempts = reconnect_attempts

(* C5: after a reconnection loop has succeeded (state CONNECTED, loop ended), a
   later transport error starts, unless stop() is called, reconnection again
   with the attempt count at 0. *)
C5_LaterErrorReconnects ==
    (pc[RC] = "off" /\ attempts > 0 /\ state = "CONNECTED" /\ pc[RX] \in {"hce", "hce_upd"})
    ~> (StopCalled \/ (pc[RC] = "rc_attempt" /\ attempts = 0))

(* C6: a start() that found the session DISCONNECTED ends (unless its caller is
   cancelled), with the state CONNECTED and the receive loop launched. *)
C6_StartCompletes ==
    \A c \in Callers :
        (pc[c] = "start_upd1")
        ~> (pc[c] = "done" /\ (call[c].outcome = "cancelled"
                               \/ (call[c].outcome = "ok" /\ state = "CONNECTED"
                                   /\ pc[RX] # "off")))

(* C7: a send_request, send_notification or send_progress_notification called
   while the state is not CONNECTED ends at once with MCPConnectionError, and
   that step writes nothing and registers nothing. *)
C7_Rejects ==
    \A c \in Callers :
        (pc[c] = "idle" /\ call'[c].op \in SendOps /\ state # "CONNECTED")
        => /\ pc'[c] = "done"
           /\ call'[c].outcome = "MCPConnectionError"
           /\ wire' = wire
           /\ response_streams' = response_streams
           /\ request_id' = request_id

C7_RejectedUnlessConnected == [][C7_Rejects]_vars

C7_Witness ==
    /\ state = "DISCONNECTING"
    /\ \E c, d \in Callers :
        /\ call[c].op = "send_progress" /\ call[c].cause = "not_connected"
        /\ call[d].op = "send_request" /\ call[d].cause = "not_connected"

(* C8: a stop() that found the session CONNECTED, RECONNECTING or ERROR ends
   (unless its caller is cancelled) with the state DISCONNECTED, both tables
   empty and no heartbeat or reconnection task running. *)
C8_StopCompletes ==
    \A c \in Callers :
        (pc[c] = "stop_upd1" /\ state \in {"CONNECTED", "RECONNECTING", "ERROR"})
        ~> (pc[c] = "done" /\ (call[c].outcome = "cancelled"
                               \/ (call[c].outcome = "ok" /\ state = "DISCONNECTED"
                                   /\ response_streams = {} /\ in_flight = NoInFlight
                                   /\ pc[HB] = "off" /\ pc[RC] = "off")))

(* C9: a send_request whose timeout expired has ended with MCPTimeoutError and
   its request id is no key of the correlation table. *)
C9_TimeoutFails ==
    \A c \in Callers :
        call[c].cause = "timeout"
        => /\ pc[c] = "done"
           /\ call[c].outcome = "MCPTimeoutError"
           /\ call[c].rid \notin response_streams

C9_Witness ==
    \E c, d \in Callers :
        /\ call[c].cause = "timeout"
        /\ Waiting(d) /\ call[d].rid \in response_streams

(* C10: the step in which a waiting send_request meets its timeout, a response
   that fails validation or a peer error ends that call with the matching
   failure and touches nothing else: state, state lock, other calls, other
   entries of the correlation table, responders. *)
LocalFailures == {"timeout", "validation", "peer_error"}

C10_Local ==
    \A c \in Callers :
        (Waiting(c) /\ call'[c].cause \in LocalFailures)
        => /\ pc'[c] = "done"
           /\ call'[c].outcome \in {"MCPTimeoutError", "MCPValidationError", "McpError"}
           /\ state' = state
           /\ state_lock' = state_lock
           /\ \A d \in Callers \ {c} : pc'[d] = pc[d] /\ call'[d] = call[d]
           /\ response_streams' = response_streams \ {call[c].rid}
           /\ resp' = resp
           /\ in_flight' = in_flight

C10_FailureStaysLocal == [][C10_Local]_vars

(* C11: a send_request call that received a response or an error received the
   one carrying the request id the call allocated, whatever the order in which
   the responses to outstanding requests arrive. *)
C11_OwnResponseOnly ==
    \A c \in Callers : call[c].got # 0 => call[c].got = call[c].rid

C11_Witness ==
    \E c, d \in Callers :
        /\ call[c].rid = 1 /\ call[d].rid = 2
        /\ call[d].got = 2 /\ pc[d] = "done"
        /\ Waiting(c) /\ chan[1].item = "none"

(* C12: while the state is ERROR - in particular after the reconnection loop
   has used up its attempts - and stop() has not been called, no step changes
   the state, makes a reconnection attempt or starts a reconnection loop,
   whatever is received, sent or found by the heartbeat. *)
C12_Stays ==
    state = "ERROR"
    => \/ StopCalled
       \/ state' = "ERROR" /\ attempts' = attempts /\ pc'[RC] = "off"

C12_ErrorIsTerminal == [][C12_Stays]_vars

C12_Witness ==
    /\ state = "ERROR"
    /\ reconnect_attempts = MaxAttemptsCfg
    /\ attempts = reconnect_attempts
    /\ pc[RX] = "hce_upd"
    /\ ~StopCalled

(* C13: every step that changes the connection state follows one of the ten
   edges of the state diagram. *)
Edges ==
    {<<"DISCONNECTED", "CONNECTING">>, <<"CONNECTING", "CONNECTED">>,
     <<"CONNECTING", "ERROR">>, <<"CONNECTED", "RECONNECTING">>,
     <<"RECONNECTING", "CONNECTED">>, <<"RECONNECTING", "ERROR">>,
     <<"CONNECTED", "DISCONNECTING">>, <<"RECONNECTING", "DISCONNECTING">>,
     <<"ERROR", "DISCONNECTING">>, <<"DISCONNECTING", "DISCONNECTED">>}

C13_Step == state' # state => <<state, state'>> \in Edges

C13_OnlyDiagramEdges == [][C13_Step]_vars

C13_Witness ==
    /\ state = "CONNECTED"
    /\ attempts = MaxAttemptsCfg
    /\ pc[RC] = "off"

Created == 1..nresp

(* C14: for each inbound request at most one response or error envelope with
   its id is written to the transport. *)
C14_AtMostOneEnvelope == \A h \in Created : resp[h].sent <= 1

RespondCall(h) == \E ok \in BOOLEAN : Respond(h, ok)

Rejections == {"RuntimeError", "AssertionError"}

(* C15: a respond() call on a responder that cancel() has terminated - called
   by the handling code or for a received cancelled notification - fails and
   writes nothing. *)
C15_Step ==
    \A h \in Created :
        (resp[h].term = "cancelled" /\ RespondCall(h))
        => /\ resp'[h].last \in Rejections
           /\ resp'[h].sent = resp[h].sent
           /\ wire' = wire

C15_NoRespondAfterCancel == [][C15_Step]_vars

C15_Witness ==
    \E h \in Created :
        resp[h].term = "cancelled" /\ resp[h].last = "AssertionError" /\ resp[h].sent = 0

(* C16: a cancel() call on a responder that is already terminal - by an
   earlier cancel(), by a response, or by a timed-out respond() - changes
   neither the responder nor the in-flight table and invokes no callback. *)
Untouched(h) ==
    /\ resp'[h] = [resp[h] EXCEPT !.lastc = "noop"]
    /\ in_flight' = in_flight

C16_Step ==
    /\ \A h \in Created : (resp[h].completed /\ CancelResp(h)) => Untouched(h)
    /\ \A i \in InboundIds :
         (in_flight[i] # 0 /\ resp[in_flight[i]].completed /\ RxCancelled(i))
         => Untouched(in_flight[i])

C16_CancelIdempotent == [][C16_Step]_vars

C16_Witness ==
    \E h \in Created :
        resp[h].term = "cancelled" /\ resp[h].lastc = "noop" /\ resp[h].ncomplete = 1

(* C17: the on-complete callback of a responder is never invoked twice, and it
   has been invoked once when the responder is terminal and out of its scope. *)
C17_OnCompleteOnce ==
    \A h \in Created :
        /\ resp[h].ncomplete <= 1
        /\ (resp[h].term # "none" /\ ~resp[h].entered) => resp[h].ncomplete = 1

(* C18: a responder whose timeout has elapsed with no respond() and no cancel()
   called on it becomes TimedOut, leaves the in-flight table, and an error
   response for its request is written. *)
C18_TimeoutAnswered ==
    \A h \in Handles :
        (h \in Created /\ resp[h].expired /\ ~resp[h].completed)
        ~> \/ resp[h].last # "none"
           \/ resp[h].term = "cancelled"
           \/ /\ resp[h].term = "timedout"
              /\ in_flight[resp[h].id] # h
              /\ resp[h].sent >= 1

(* C19: respond() on an entered, non-terminal responder whose timeout has
   elapsed writes nothing, makes the responder terminal as timed out, removes
   it from the in-flight table and raises MCPTimeoutError; respond() on a
   terminal responder is rejected and writes nothing. *)
C19_Step ==
    \A h \in Created :
        RespondCall(h)
        => /\ (resp[h].entered /\ ~resp[h].completed /\ resp[h].expired)
              => /\ resp'[h].last = "MCPTimeoutError"
                 /\ resp'[h].term = "timedout"
                 /\ resp'[h].completed
                 /\ in_flight'[resp[h].id] = 0
                 /\ resp'[h].sent = resp[h].sent
                 /\ wire' = wire
           /\ resp[h].completed
              => /\ resp'[h].last \in Rejections
                 /\ resp'[h].sent = resp[h].sent
                 /\ resp'[h].term = resp[h].term
                 /\ wire' = wire

C19_LateRespondRejected == [][C19_Step]_vars

C19_Witness ==
    \E h \in Created :
        /\ resp[h].term = "timedout"
        /\ resp[h].last = "MCPTimeoutError"
        /\ resp[h].sent = 0
        /\ in_flight[resp[h].id] = 0

(* C20: a start() called while the state is not DISCONNECTED ends (unless its
   caller is cancelled) with RuntimeError. *)
C20_StartRejected ==
    \A c \in Callers :
        (pc[c] = "start" /\ state # "DISCONNECTED")
        ~> (pc[c] = "done" /\ call[c].outcome \in {"RuntimeError", "cancelled"})

(* C21: a stop() called while a responder is in the in-flight table ends
   (unless its caller is cancelled) with that responder cancelled. *)
C21_StopCancelsResponders ==
    \A c \in Callers, h \in Handles :
        (pc[c] = "stop_upd1" /\ h \in Created /\ in_flight[resp[h].id] = h)
        ~> \/ call[c].outcome = "cancelled"
           \/ pc[c] = "done" /\ resp[h].term = "cancelled"

(* C22: a report transmitted by progress() was called at least
   min_report_interval after every report transmitted before it; so two
   progress() calls less than min_report_interval apart on a fresh context
   transmit one notification, not two. *)
C22_ProgressThrottled ==
    \A j \in 1..Len(reports) :
        reports[j].by = "progress"
        => \A i \in 1..(j - 1) : reports[j].at - reports[i].at >= MinReportInterval

(* C23: once the progress scope has been left - normally or by an exception of
   its body, throttled or not - one final report is attempted, no more, it
   carries the accumulated current, and no later step (a failure of that
   report included) changes how the scope was left. *)
C23_Safe ==
    /\ pcall[FIN].n <= 1
    /\ scope = "open" => pcall[FIN].n = 0
    /\ pcall[FIN].n = 1 => pcall[FIN].value = progress_ctx.current

C23_Left == scope # "open" => scope' = scope

C23_FinalReportAttempted ==
    /\ [](C23_Safe)
    /\ [][C23_Left]_vars
    /\ (scope # "open") ~> (pcall[FIN].n = 1)

C23_Witness ==
    /\ scope = "raised"
    /\ progress_ctx.current > 0
    /\ ~ReportDue(progress_ctx, now)
    /\ pcall[FIN].n = 1
    /\ pc[FIN] = "hce_upd"

(* C24: progress() with a negative amount and set_progress() with a negative
   value end with ValueError, change nothing of the context and transmit
   nothing; progress() with amount >= 0 adds exactly amount to current in the
   step of the call, and the write of a report leaves current alone. *)
C24_RejectedCall(u) ==
    /\ progress_ctx' = progress_ctx
    /\ reports' = reports
    /\ wire' = wire
    /\ pc'[u] = "idle"
    /\ pcall'[u].outcome = "ValueError"

C24_Step ==
    /\ \A u \in Users, a \in Amounts :
         Progress(u, a) => IF a < 0 THEN C24_RejectedCall(u)
                           ELSE progress_ctx'.current = progress_ctx.current + a
    /\ \A u \in Users, v \in Currents : (SetProgress(u, v) /\ v < 0) => C24_RejectedCall(u)
    /\ \A u \in Reporters, ok \in BOOLEAN :
         ReportWrite(u, ok) => progress_ctx'.current = progress_ctx.current

C24_NegativeRejected == [][C24_Step]_vars

C24_Witness ==
    /\ progress_ctx.current = 2
    /\ Len(reports) = 1
    /\ reports[1].value = 1
    /\ \A u \in Users : pc[u] = "idle"
    /\ \E u \in Users : pcall[u].op = "progress" /\ pcall[u].outcome = "ValueError"

(* C25: the write of a send_notification ends the call at once and registers
   nothing; a send_notification whose write failed on a CONNECTED session ends
   (unless its caller is cancelled or stop() is called) with
   MCPConnectionError and the state RECONNECTING. *)
C25_Step ==
    \A c \in Callers :
        (pc[c] = "sending" /\ call[c].op = "send_notification" /\ SendWrite(c, TRUE))
        => /\ pc'[c] = "done"
           /\ call'[c].outcome = "ok"
           /\ response_streams' = response_streams

C25_NotificationFireAndForget ==
    /\ [][C25_Step]_vars
    /\ \A c \in Callers :
         (call[c].op = "send_notification" /\ pc[c] \in {"hce", "hce_upd"})
         ~> \/ call[c].outcome = "cancelled"
            \/ StopCalled
            \/ /\ pc[c] = "done"
               /\ call[c].outcome = "MCPConnectionError"
               /\ state = "RECONNECTING"

(* C26: a send_request call that has ended has the outcome of its cause:
   result, McpError, MCPValidationError, MCPTimeoutError, MCPConnectionError,
   or a capacity error. *)
Expected(cs) ==
    CASE cs = "response" -> "result"
      [] cs = "peer_error" -> "McpError"
      [] cs = "validation" -> "MCPValidationError"
      [] cs = "timeout" -> "MCPTimeoutError"
      [] cs \in {"transport", "not_connected", "closed"} -> "MCPConnectionError"
      [] cs = "capacity" -> "CapacityError"
      [] OTHER -> cs

C26_OutcomeMatchesCause ==
    \A c \in Callers :
        (call[c].op = "send_request" /\ pc[c] = "done")
        => call[c].outcome = Expected(call[c].cause)

(* C27: every id send_request allocates is greater than every id allocated
   before it, and no two calls have the same id. *)
C27_Distinct ==
    \A c, d \in Callers :
        (c # d /\ call[c].rid # 0 /\ call[d].rid # 0) => call[c].rid # call[d].rid

C27_Step ==
    request_id' # request_id
    => /\ request_id' > request_id
       /\ \A c \in Callers : call[c].rid < request_id'
       /\ \E c \in Callers : call'[c].rid = request_id' /\ call[c].rid # request_id'

C27_IdsIncrease == [](C27_Distinct) /\ [][C27_Step]_vars

C27_Witness ==
    /\ attempts > 0
    /\ \E c, d \in Callers :
         /\ Waiting(c) /\ call[c].rid = 1
         /\ Waiting(d) /\ call[d].rid = 2

(* C28: a response or error whose id is no key of the correlation table
   reaches no caller's stream, ends no call, and is passed to
   _handle_incoming. *)
C28_Step ==
    \A i \in RequestIds, k \in ResponseKinds :
        (RxResponse(i, k) /\ i \notin response_streams)
        => /\ pc'[RX] = "rx_anomaly"
           /\ chan' = chan
           /\ call' = call

C28_UnmatchedForwarded == [][C28_Step]_vars

C28_Witness ==
    /\ pc[RX] = "rx_anomaly"
    /\ \E c \in Callers : call[c].outcome = "MCPTimeoutError"
    /\ \E d \in Callers : call[d].outcome = "result"

(* C29: when _received_request is called the responder is in the in-flight
   table under its id; when that hook returns, _handle_incoming is called
   exactly if the responder is not completed, and at no other point. *)
C29_Step ==
    /\ \A i \in InboundIds :
         RxRequest(i) => /\ pc'[RX] = "rx_hook"
                         /\ resp'[nresp'].id = i
                         /\ in_flight'[i] = nresp'
    /\ \A h \in Created :
         (pc[RX] = "rx_hook" /\ resp[h].hook /\ RxHookEnd(FALSE, TRUE))
         => (pc'[RX] = "rx_generic" <=> ~resp[h].completed)
    /\ (pc'[RX] = "rx_generic" /\ pc[RX] # "rx_generic") => pc[RX] = "rx_hook"

C29_GenericIffNotCompleted == [][C29_Step]_vars

C29_Witness ==
    /\ pc[RX] = "rx_generic"
    /\ \E h \in Created : resp[h].hook /\ ~resp[h].completed /\ in_flight[resp[h].id] = h

(* C30: a cancelled notification completes the responder registered under the
   id it names, changes nothing when there is none, and enters no hook; any
   other notification enters _received_notification, and _handle_incoming
   only when that hook has returned. *)
C30_Step ==
    /\ \A i \in InboundIds :
         RxCancelled(i)
         => /\ pc'[RX] \in {"rx_wait", "off"}
            /\ in_flight[i] # 0 => resp'[in_flight[i]].completed
            /\ in_flight[i] = 0 => (resp' = resp /\ in_flight' = in_flight)
    /\ RxNotification => pc'[RX] = "rx_nhook"
    /\ (pc[RX] = "rx_nhook" /\ RxNotifHookEnd(FALSE)) => pc'[RX] = "rx_ngeneric"
    /\ (pc'[RX] = "rx_ngeneric" /\ pc[RX] # "rx_ngeneric") => pc[RX] = "rx_nhook"

C30_NotificationRouting == [][C30_Step]_vars

C30_Witness ==
    /\ pc[RX] = "rx_ngeneric"
    /\ in_flight = NoInFlight
    /\ \E h \in Created : resp[h].term = "cancelled" /\ resp[h].lastc = "done"

(* C31: a heartbeat tick of a Connected session invokes the connection-error
   path and sends no heartbeat when more than twice the heartbeat interval has
   passed since the last activity; otherwise it sends a heartbeat exactly when
   none was sent within the last interval, and a failed send invokes the
   connection-error path.  In any other state the tick sends nothing and
   invokes nothing. *)
C31_Invoked == pc'[HB] \in {"hce", "hce_upd"} /\ last_heartbeat' = last_heartbeat

C31_Quiet ==
    /\ pc'[HB] \in {"hb_sleep", "off"}
    /\ last_heartbeat' = last_heartbeat
    /\ state_lock' = state_lock

C31_Sent == pc'[HB] = "hb_sleep" /\ last_heartbeat' = now /\ state_lock' = state_lock

C31_Step ==
    \A fails \in BOOLEAN :
        HbTick(fails) =>
            IF state # "CONNECTED" THEN C31_Quiet
            ELSE IF now - last_activity > 2 * HeartbeatInterval THEN C31_Invoked
            ELSE IF last_heartbeat # NoBeat /\ now - last_heartbeat <= HeartbeatInterval
            THEN C31_Quiet
            ELSE IF fails THEN C31_Invoked
            ELSE C31_Sent

C31_HeartbeatTick == [][C31_Step]_vars

C31_Witness ==
    /\ state = "CONNECTED"
    /\ pc[HB] \in {"hce", "hce_upd"}
    /\ now - last_activity > 2 * HeartbeatInterval
    /\ last_heartbeat # NoBeat
    /\ now - last_heartbeat <= HeartbeatInterval

(* C32: the connection-error path invoked by the receive loop of a Connected
   session runs to completion, and then every responder of the in-flight
   table has been cancelled and removed, the correlation table is empty with
   its channels closed, and a reconnection loop has been started exactly when
   reconnect_attempts >= 1. *)
C32_Completed ==
    /\ pc[RX] \notin {"hce", "hce_upd"}
    /\ in_flight = NoInFlight
    /\ response_streams = {}
    /\ \A i \in RequestIds : chan[i].sendClosed \/ chan[i] = FreshChan
    /\ reconnect_attempts >= 1 <=> pc[RC] # "off"

C32_ErrorPathCompletes ==
    (state = "CONNECTED" /\ pc[RX] = "hce_upd") ~> C32_Completed

(* C33: while the session runs, the correlation table and the in-flight table
   are changed only by a step of the receive loop or by a send_request call
   inserting or removing its own entry; no other task changes either table. *)
C33_ByReceiveLoop ==
    \/ \E i \in RequestIds, k \in ResponseKinds : RxResponse(i, k)
    \/ \E i \in InboundIds : RxRequest(i) \/ RxCancelled(i)
    \/ \E raised, ok \in BOOLEAN : RxHookEnd(raised, ok)
    \/ \E raised \in BOOLEAN : RxAnomalyEnd(raised)
    \/ RxTransportError
    \/ pc[RX] \in {"hce", "hce_upd"} /\ (HceEnter(RX) \/ UpdateState(RX))

C33_OwnEntry ==
    \E c \in Callers :
        /\ pc'[c] # pc[c]
        /\ call'[c].op = "send_request"
        /\ in_flight' = in_flight
        /\ (response_streams' \ response_streams) \cup (response_streams \ response_streams')
               \subseteq {call'[c].rid}

C33_Step ==
    (response_streams' # response_streams \/ in_flight' # in_flight)
        => (C33_ByReceiveLoop \/ C33_OwnEntry)

C33_TablesOwnedByReceiveLoop == [][C33_Step]_vars

(* C34: the connection state changes only in a step of _update_state, taken
   by a task that gets the state lock while no other task holds it, so the
   read of the old state and the write of the new one are never interleaved
   with another change. *)
C34_Step ==
    state' # state => \E t \in Tasks : UpdateState(t) /\ state_lock \in {NoTask, t}

C34_StateWrittenUnderLock == [][C34_Step]_vars

C34_Witness ==
    /\ state \in {"CONNECTED", "ERROR"}
    /\ pc[RC] = "off"
    /\ attempts >= 1
    /\ \E c \in Callers : call[c].op = "stop" /\ call[c].outcome = "cancelled"

(* C35: no task waits for the state lock while it holds that lock itself:
   no task is inside a call of _update_state, waiting for _state_lock, with
   _state_lock held by that same task. *)
C35_NoSelfWait == \A t \in Tasks : ~(pc[t] \in UpdPcs /\ state_lock = t)

(* C36: at most one reconnection loop is active: no step of the
   connection-error path creates a reconnection task while a loop is running,
   the attempt count of a running loop is never set back, and it never
   exceeds reconnect_attempts. *)
C36_Starts ==
    \E t \in Tasks : pc[t] = "hce_upd" /\ UpdateState(t) /\ reconnect_attempts > 0

C36_Step ==
    /\ C36_Starts => pc[RC] = "off"
    /\ pc[RC] # "off" => attempts' >= attempts
    /\ attempts' <= reconnect_attempts

C36_OneReconnectionLoop == [][C36_Step]_vars

C36_Witness ==
    /\ state = "RECONNECTING"
    /\ pc[RC] = "rc_sleep"
    /\ attempts >= 1
    /\ pc[RX] = "hce_upd"

(* C37: a stop() begun while a reconnection loop is running ends (unless its
   caller is cancelled) with the state DISCONNECTED and that loop cancelled or
   finished, no background task having the state to write any more. *)
C37_StopEndsReconnection ==
    \A c \in Callers :
        (pc[c] = "stop_upd1" /\ pc[RC] # "off")
        ~> \/ call[c].outcome = "cancelled"
           \/ pc[c] = "done" /\ state = "DISCONNECTED" /\ pc[RC] = "off"

(* C38: when a responder completes (its on_complete callback runs), the entry
   of another responder registered under the same request id stays in the
   in-flight table. *)
C38_Step ==
    \A h, g \in Created :
        (/\ h # g
         /\ resp[h].id = resp[g].id
         /\ in_flight[resp[g].id] = g
         /\ resp'[h].ncomplete > resp[h].ncomplete)
        => in_flight'[resp[g].id] = g

C38_NewerEntryKept == [][C38_Step]_vars

(* C39: a session in state RECONNECTING eventually leaves it for CONNECTED,
   ERROR or DISCONNECTING, whatever reconnect_attempts >= 0 is configured. *)
C39_LeavesReconnecting ==
    (state = "RECONNECTING") ~> (state \in {"CONNECTED", "ERROR", "DISCONNECTING"})

(* C40: _last_activity changes only in a step of the receive loop that takes
   an item from the read stream, and becomes the time of that step; no step of
   a caller that sends and no heartbeat tick changes it, so a heartbeat tick
   of a Connected session that has received nothing for more than twice the
   heartbeat interval invokes the connection-error path, whatever was sent. *)
C40_Item ==
    \/ \E i \in RequestIds, k \in ResponseKinds : RxResponse(i, k)
    \/ \E i \in InboundIds : RxRequest(i) \/ RxDuplicate(i) \/ RxCancelled(i)
    \/ RxNotification
    \/ RxTransportError

C40_Step ==
    /\ last_activity' # last_activity => C40_Item /\ last_activity' = now
    /\ \A c \in Callers : pc'[c] # pc[c] => last_activity' = last_activity
    /\ \A fails \in BOOLEAN :
          HbTick(fails) =>
              /\ last_activity' = last_activity
              /\ (state = "CONNECTED" /\ now - last_activity > 2 * HeartbeatInterval)
                    => pc'[HB] \in {"hce", "hce_upd"}

C40_OnlyReceiveAdvancesActivity == [][C40_Step]_vars

C40_Witness ==
    /\ state = "CONNECTED"
    /\ last_activity < Epoch
    /\ now - last_activity > 2 * HeartbeatInterval
    /\ [kind |-> "notification", id |-> 0] \in wire
    /\ \E i \in RequestIds : [kind |-> "request", id |-> i] \in wire
    /\ pc[HB] \in {"hce", "hce_upd"}
    /\ last_heartbeat # NoBeat
    /\ now - last_heartbeat <= HeartbeatInterval

====
